---- MODULE Spec2Model ----
(***************************************************************************)
(* VisionAssistant (src/app.py): the scene-salience and narration          *)
(* pipeline (rank_objects -> pick_main_and_danger -> describe /            *)
(* make_phrase), the anti-repeat speech gate (LAST, should_speak) and the  *)
(* two request handlers /predict/frame and /predict/photo.                 *)
(*                                                                         *)
(* Numbers.  The source computes in floats; the model computes the same    *)
(* quantities exactly, as rationals <<numerator, denominator>> with a      *)
(* positive denominator, compared by cross-multiplication.  Confidences    *)
(* are in hundredths (45 is 0.45).  The decimal literals of the source     *)
(* (0.35, 0.65, 0.22, 0.10, 0.04, 0.45, 1.35, 0.6, 0.4) appear as the      *)
(* corresponding rationals.  The Russian words of the source are written   *)
(* in Latin transliteration.                                               *)
(***************************************************************************)
EXTENDS Integers, Sequences, FiniteSets, TLC

VARIABLES
    \* ---- detect_from_image_bytes (one inference call) ----
    dets,       \* the detector's list of detections for the image
    w, h,       \* img.size
    ranked,     \* rank_objects(dets, w, h)
    picked,     \* pick_main_and_danger(ranked)
    phrase,     \* make_phrase(picked, w, h)
    stage,      \* position inside detect_from_image_bytes
    \* ---- speech gate and handlers ----
    LAST,       \* the module-level dict LAST = {"phrase", "time"}
    clock,      \* what time.time() returns now
    spoken,     \* the texts handed to speak_ru, in order, with their time
    resp,       \* the latest request and its response
    accepted,   \* the latest should_speak call that returned True
    \* ---- concurrent /predict/frame requests (one per thread) ----
    pc, tphrase, tnow, tret,
    \* ---- distance_word applied to a ratio ----
    area_ratio, dist_out

vars == <<dets, w, h, ranked, picked, phrase, stage,
          LAST, clock, spoken, resp, accepted,
          pc, tphrase, tnow, tret, area_ratio, dist_out>>

pipeVars == <<dets, w, h, ranked, picked, phrase, stage>>
gateVars == <<LAST, clock, spoken, resp, accepted>>
thrVars  == <<pc, tphrase, tnow, tret>>
distVars == <<area_ratio, dist_out>>

(***************************************************************************)
(* Bounds of the model.                                                    *)
(***************************************************************************)
MaxDets == 3        \* longest detection list
MaxClock == 8       \* last clock value (seconds)
MaxSupp == 2        \* suppressed calls counted since the latest accepted one
NThreads == 2       \* concurrent /predict/frame requests
MaxDen == 50        \* largest denominator of a ratio given to distance_word

COOLDOWN == 3       \* should_speak(..., cooldown_sec=3.0), in seconds

(***************************************************************************)
(* Rationals.                                                              *)
(***************************************************************************)
Lt(a, b) == a[1] * b[2] < b[1] * a[2]
Gt(a, b) == Lt(b, a)
Le(a, b) == ~Lt(b, a)
Max(a, b) == IF a >= b THEN a ELSE b

\* ( ... ) ** 0.5 on a perfect square (the inputs of the model are chosen so
\* that the squared centre distance is one).
Sqrt(n) == CHOOSE r \in 0..n : r * r <= n /\ n < (r + 1) * (r + 1)
IsSquare(n) == Sqrt(n) * Sqrt(n) = n

Reverse(s) == [i \in 1..Len(s) |-> s[Len(s) + 1 - i]]

(***************************************************************************)
(* Configuration tables.                                                   *)
(***************************************************************************)
DANGER == {"car", "bus", "truck", "motorcycle", "bicycle"}

RU_LABELS ==
    [x \in {"person", "car", "bus", "truck", "motorcycle", "bicycle",
            "traffic light", "stop sign", "chair", "couch", "bed",
            "dining table", "laptop", "cell phone", "tv", "bottle", "cup",
            "book", "backpack", "handbag", "dog", "cat"} |->
        CASE x = "person" -> "chelovek"
          [] x = "car" -> "mashina"
          [] x = "bus" -> "avtobus"
          [] x = "truck" -> "gruzovik"
          [] x = "motorcycle" -> "motocikl"
          [] x = "bicycle" -> "velosiped"
          [] x = "traffic light" -> "svetofor"
          [] x = "stop sign" -> "znak stop"
          [] x = "chair" -> "stul"
          [] x = "couch" -> "divan"
          [] x = "bed" -> "krovat"
          [] x = "dining table" -> "stol"
          [] x = "laptop" -> "noutbuk"
          [] x = "cell phone" -> "telefon"
          [] x = "tv" -> "televizor"
          [] x = "bottle" -> "butylka"
          [] x = "cup" -> "kruzhka"
          [] x = "book" -> "kniga"
          [] x = "backpack" -> "ryukzak"
          [] x = "handbag" -> "sumka"
          [] x = "dog" -> "sobaka"
          [] OTHER -> "kot"]

ru_label(x) == IF x \in DOMAIN RU_LABELS THEN RU_LABELS[x] ELSE x

(***************************************************************************)
(* rank_objects                                                            *)
(***************************************************************************)
bbox_area(b) == Max(0, b[3] - b[1]) * Max(0, b[4] - b[2])

\* Squared distance between the bbox centre and the frame centre, times 4:
\* (cx - cx_img) = (x1 + x2 - w) / 2.
dist2x4(b, fw, fh) ==
    (b[1] + b[3] - fw) * (b[1] + b[3] - fw) + (b[2] + b[4] - fh) * (b[2] + b[4] - fh)

\* A plausible slip: the danger multiplier is left out.
priority_flat(label) == 100

\* priority = 1.35 if d["label"] in DANGER else 1.0   (in hundredths)
priority_danger(label) == IF label \in DANGER THEN 135 ELSE 100

\* score(d) in units of 1/100000:
\*   dist = Sqrt(dist2x4) / 2, center_score = 1/(1+dist) = 2/(2+Sqrt(dist2x4)),
\*   (0.6*area + 0.4*center_score*img_area) * conf * priority
\*     = (6*area*(2+S) + 8*img_area) * conf * priority / (2+S)     [* 10^-5]
score(d, fw, fh) ==
    LET area == bbox_area(d.bbox)
        S == Sqrt(dist2x4(d.bbox, fw, fh))
        img_area == Max(fw * fh, 1)
    IN  <<(6 * area * (2 + S) + 8 * img_area) * d.conf * priority_danger(d.label),
          2 + S>>

\* One insertion of the stable ascending sort: x goes after every element
\* whose key is not greater than its own.
RECURSIVE insert_asc(_, _, _, _)
insert_asc(s, x, fw, fh) ==
    IF s = <<>> THEN <<x>>
    ELSE IF Lt(score(x, fw, fh), score(Head(s), fw, fh))
         THEN <<x>> \o s
         ELSE <<Head(s)>> \o insert_asc(Tail(s), x, fw, fh)

RECURSIVE sort_asc(_, _, _)
sort_asc(s, fw, fh) ==
    IF s = <<>> THEN <<>>
    ELSE insert_asc(sort_asc(SubSeq(s, 1, Len(s) - 1), fw, fh), s[Len(s)], fw, fh)

\* A plausible slip: descending order obtained by reversing the ascending
\* stable sort, which turns ties around.
rank_objects_unstable(ds, fw, fh) ==
    IF ds = <<>> THEN <<>> ELSE Reverse(sort_asc(ds, fw, fh))

\* sorted(dets, key=score, reverse=True): the list is reversed, sorted
\* ascending by a stable sort, and reversed again.
rank_objects(ds, fw, fh) ==
    IF ds = <<>> THEN <<>>
    ELSE Reverse(sort_asc(Reverse(ds), fw, fh))

(***************************************************************************)
(* pick_main_and_danger                                                    *)
(***************************************************************************)
\* Indexes of ranked[1:] (2..Len in 1-based indexing) holding a detection
\* whose label is dangerous and differs from the main one's.
danger_idx(rk) ==
    {i \in 2..Len(rk) : rk[i].label \in DANGER /\ rk[i].label # rk[1].label}

Min(S) == CHOOSE x \in S : \A y \in S : x <= y

\* A plausible slip: the scan for a danger object is left out.
pick_main_no_scan(rk) ==
    IF rk = <<>> THEN <<>>
    ELSE IF Len(rk) > 1 /\ rk[2].conf >= 45 THEN <<rk[1], rk[2]>>
    ELSE <<rk[1]>>

\* A plausible slip: the scan keeps the last match instead of breaking at
\* the first.
pick_main_last_match(rk) ==
    IF rk = <<>> THEN <<>>
    ELSE IF danger_idx(rk) # {}
         THEN <<rk[1], rk[CHOOSE i \in danger_idx(rk) : \A j \in danger_idx(rk) : j <= i]>>
    ELSE IF Len(rk) > 1 /\ rk[2].conf >= 45 THEN <<rk[1], rk[2]>>
    ELSE <<rk[1]>>

pick_main_and_danger(rk) ==
    IF rk = <<>> THEN <<>>
    ELSE IF danger_idx(rk) # {} THEN <<rk[1], rk[Min(danger_idx(rk))]>>
    ELSE IF Len(rk) > 1 /\ rk[2].conf >= 45 THEN <<rk[1], rk[2]>>
    ELSE <<rk[1]>>

(***************************************************************************)
(* Descriptors and the sentence                                            *)
(***************************************************************************)
\* A plausible slip: the left band reaches only to 0.30.
pos_word_narrow(cx, fw) ==
    LET x == <<cx[1], cx[2] * Max(fw, 1)>>
    IN  IF Lt(x, <<30, 100>>) THEN "sleva"
        ELSE IF Gt(x, <<65, 100>>) THEN "sprava"
        ELSE "po centru"

\* cx is a rational; x = cx / max(w, 1).
pos_word(cx, fw) ==
    LET x == <<cx[1], cx[2] * Max(fw, 1)>>
    IN  IF Lt(x, <<35, 100>>) THEN "sleva"
        ELSE IF Gt(x, <<65, 100>>) THEN "sprava"
        ELSE "po centru"

\* A plausible slip: the thresholds are compared with >=.
distance_word_ge(r) ==
    IF Le(<<22, 100>>, r) THEN "ochen blizko"
    ELSE IF Le(<<10, 100>>, r) THEN "blizko"
    ELSE IF Le(<<4, 100>>, r) THEN "na srednem rasstoyanii"
    ELSE "daleko"

distance_word(r) ==
    IF Gt(r, <<22, 100>>) THEN "ochen blizko"
    ELSE IF Gt(r, <<10, 100>>) THEN "blizko"
    ELSE IF Gt(r, <<4, 100>>) THEN "na srednem rasstoyanii"
    ELSE "daleko"

danger_word(label) == IF label \in DANGER THEN "opasno" ELSE "ne opasno"

describe(obj, fw, fh) ==
    LET b == obj.bbox
        cx == <<b[1] + b[3], 2>>
        area == bbox_area(b)
        ratio == <<area, Max(fw * fh, 1)>>
    IN  [name |-> ru_label(obj.label),
         pos |-> pos_word(cx, fw),
         dist |-> distance_word(ratio),
         danger |-> danger_word(obj.label)]

NoObjects == <<"Ya ne vizhu uverennyh obektov. Podojdite blizhe ili uluchshite osveshchenie.">>

\* The sentence, as the sequence of the pieces the f-strings join:
\* "Pered vami {name}, {pos}, {dist}. Eto {danger}." and, for a second
\* object, " " + "Takzhe {name}, {pos}, {dist}. Eto {danger}."
clause(lead, a) == <<lead, a.name, a.pos, a.dist, "Eto", a.danger>>

make_phrase(objs, fw, fh) ==
    IF objs = <<>> THEN NoObjects
    ELSE IF Len(objs) > 1
         THEN clause("Pered vami", describe(objs[1], fw, fh))
              \o clause("Takzhe", describe(objs[2], fw, fh))
    ELSE clause("Pered vami", describe(objs[1], fw, fh))

(***************************************************************************)
(* Inputs of one inference call.  A small frame keeps the score products   *)
(* inside TLC's integers; its boxes have a centre whose distance to the    *)
(* frame centre is an integer or a half-integer, so that score is exact.   *)
(* The 640x480 frame carries the single-detection scenes, for which        *)
(* sorted() compares no two keys.                                          *)
(***************************************************************************)
Labels == {"car", "bus", "person"}
Confs == {0, 45, 90}
SmallFrame == <<8, 6>>
Boxes ==
    {b \in {<<2, 1, 6, 5>>, <<0, 2, 2, 4>>} :
        IsSquare(dist2x4(b, SmallFrame[1], SmallFrame[2]))}
Detections == [label : Labels, conf : Confs, bbox : Boxes]

BigFrame == <<640, 480>>
BigDetections ==
    [label : {"car", "person", "kite"}, conf : {90},
     bbox : {<<100, 100, 300, 300>>, <<220, 140, 420, 340>>, <<500, 0, 640, 480>>}]

DetLists == UNION {[1..n -> Detections] : n \in 0..MaxDets}

Inputs ==
    {[dets |-> ds, w |-> SmallFrame[1], h |-> SmallFrame[2]] : ds \in DetLists}
    \cup {[dets |-> <<d>>, w |-> BigFrame[1], h |-> BigFrame[2]] : d \in BigDetections}

PipeIdle ==
    /\ dets = <<>> /\ w = 1 /\ h = 1
    /\ ranked = <<>> /\ picked = <<>> /\ phrase = <<>> /\ stage = "off"
\* LAST = {"phrase": "", "time": 0.0}; the empty string is the empty sentence.
NoResp ==
    [seq |-> 0, route |-> "none", status |-> 0, phrase |-> <<>>, voice |-> FALSE,
     audio |-> FALSE, at |-> 0, same |-> FALSE, gap |-> 0, nsupp |-> 0]
NoAccepted == [phrase |-> <<>>, at |-> 0, nsupp |-> 0, any |-> FALSE]
NoSpoken == [text |-> <<>>, at |-> 0, any |-> FALSE]
GateIdle ==
    /\ LAST = [phrase |-> <<>>, time |-> 0]
    /\ clock = COOLDOWN /\ spoken = NoSpoken /\ resp = NoResp /\ accepted = NoAccepted
ThrIdle ==
    /\ pc = <<>> /\ tphrase = <<>> /\ tnow = <<>> /\ tret = <<>>
DistIdle ==
    /\ area_ratio = <<0, 1>> /\ dist_out = "none"

(***************************************************************************)
(* detect_from_image_bytes: the detector's list, then lines 190-192.       *)
(***************************************************************************)
Init ==
    /\ \E in \in Inputs : dets = in.dets /\ w = in.w /\ h = in.h
    /\ ranked = <<>> /\ picked = <<>> /\ phrase = <<>>
    /\ stage = "rank"
    /\ GateIdle /\ ThrIdle /\ DistIdle

Rank ==
    /\ stage = "rank"
    /\ ranked' = rank_objects(dets, w, h)
    /\ stage' = "pick"
    /\ UNCHANGED <<dets, w, h, picked, phrase, gateVars, thrVars, distVars>>

Pick ==
    /\ stage = "pick"
    /\ picked' = pick_main_and_danger(ranked)
    /\ stage' = "phrase"
    /\ UNCHANGED <<dets, w, h, ranked, phrase, gateVars, thrVars, distVars>>

Compose ==
    /\ stage = "phrase"
    /\ phrase' = make_phrase(picked, w, h)
    /\ stage' = "done"
    /\ UNCHANGED <<dets, w, h, ranked, picked, gateVars, thrVars, distVars>>

Next == Rank \/ Pick \/ Compose

Spec == Init /\ [][Next]_vars

(***************************************************************************)
(* distance_word applied to one ratio.                                     *)
(***************************************************************************)
Ratios == {<<n, d>> : n \in 0..(MaxDen + 1), d \in 1..MaxDen}

DistInit ==
    /\ area_ratio \in {r \in Ratios : r[1] <= r[2] + 1}
    /\ dist_out = "none"
    /\ PipeIdle /\ GateIdle /\ ThrIdle

Classify ==
    /\ dist_out = "none"
    /\ dist_out' = distance_word(area_ratio)
    /\ UNCHANGED <<area_ratio, pipeVars, gateVars, thrVars>>

DistNext == Classify

DistSpec == DistInit /\ [][DistNext]_vars

(***************************************************************************)
(* Properties of the pipeline (specification Spec).                        *)
(***************************************************************************)
IsDanger(d) == d.label \in DANGER
EqScore(a, b) ==
    LET sa == score(a, w, h)
        sb == score(b, w, h)
    IN  sa[1] * sb[2] = sb[1] * sa[2]
Count(s, x) == Cardinality({i \in 1..Len(s) : s[i] = x})
\* rank_objects has just returned; pick_main_and_danger has just returned.
Ranked == stage = "pick"
Picked == stage = "phrase"
\* The first index of ranked[1:] whose detection is dangerous and labelled
\* differently from ranked[0].
FirstDanger(k) ==
    /\ k \in 2..Len(ranked)
    /\ IsDanger(ranked[k]) /\ ranked[k].label # ranked[1].label
    /\ \A j \in 2..(k - 1) : ~(IsDanger(ranked[j]) /\ ranked[j].label # ranked[1].label)

\* C4: for a non-empty ranked list the primary is ranked[0], and when
\* ranked[1:] holds a dangerous detection labelled differently from the
\* primary, the selection is exactly [ranked[0], d] with d the first such
\* detection, whatever its confidence and whatever else the list holds.
C4_FirstDangerIsSecondary ==
    (Picked /\ ranked # <<>>) =>
        /\ picked[1] = ranked[1]
        /\ \A k \in 2..Len(ranked) : FirstDanger(k) => picked = <<ranked[1], ranked[k]>>

\* A dangerous detection of confidence 0 at the end of the list is chosen
\* over a confident non-danger detection ranked second.
C4_Witness ==
    /\ stage = "done" /\ Len(ranked) = 3
    /\ ~IsDanger(ranked[2]) /\ ranked[2].conf = 90
    /\ FirstDanger(3) /\ ranked[3].conf = 0
    /\ picked = <<ranked[1], ranked[3]>>

\* C5: the output of rank_objects is a permutation of its input, its scores
\* are non-increasing, and detections of equal score keep their input order.
C5_RankPermutationSortedStable ==
    Ranked =>
        /\ Len(ranked) = Len(dets)
        /\ \A i \in 1..Len(dets) : Count(ranked, dets[i]) = Count(dets, dets[i])
        /\ Len(dets) >= 2 =>
            /\ \A i, j \in 1..Len(ranked) :
                   i < j => Le(score(ranked[j], w, h), score(ranked[i], w, h))
            /\ \A i \in 1..Len(dets) :
                   LET same(d) == EqScore(d, dets[i])
                   IN  SelectSeq(ranked, same) = SelectSeq(dets, same)

\* Ranking moved something, and two different detections of equal score
\* stand in the output in their input order.
C5_Witness ==
    /\ stage = "done" /\ Len(dets) = 3 /\ ranked # dets
    /\ \E i, j \in 1..3 :
           /\ i < j /\ dets[i] # dets[j] /\ EqScore(dets[i], dets[j])
           /\ \E a, b \in 1..3 : a < b /\ ranked[a] = dets[i] /\ ranked[b] = dets[j]

\* A dangerous and a non-dangerous detection with the same bbox and the same
\* confidence, at positions i and j of the ranked list.
TwinPair(i, j) ==
    /\ i \in 1..Len(ranked) /\ j \in 1..Len(ranked)
    /\ IsDanger(ranked[i]) /\ ~IsDanger(ranked[j])
    /\ ranked[i].bbox = ranked[j].bbox /\ ranked[i].conf = ranked[j].conf

\* C6 as stated: of two detections with identical bbox and identical
\* confidence in [0,1], the Danger Set one is never placed after the other.
C6_DangerNeverAfter ==
    Ranked => \A i, j \in 1..Len(ranked) : TwinPair(i, j) => i < j

\* C6 amended: the Danger Set detection's score is never lower; with a
\* positive confidence it is placed before the non-danger detection; with
\* confidence 0 the two scores are equal and the two keep their input order.
C6_DangerFirstWhenPositive ==
    Ranked => \A i, j \in 1..Len(ranked) : TwinPair(i, j) =>
        /\ Le(score(ranked[j], w, h), score(ranked[i], w, h))
        /\ ranked[i].conf > 0 => i < j
        /\ ranked[i].conf = 0 =>
            /\ EqScore(ranked[i], ranked[j])
            /\ LET two(d) == d \in {ranked[i], ranked[j]}
               IN  SelectSeq(ranked, two) = SelectSeq(dets, two)

\* The non-danger detection came first in the input and the ranking put the
\* Danger Set twin in front of it.
C6_Witness ==
    /\ stage = "done" /\ Len(dets) = 2
    /\ ~IsDanger(dets[1]) /\ IsDanger(dets[2])
    /\ dets[1].bbox = dets[2].bbox /\ dets[1].conf = 90 /\ dets[2].conf = 90
    /\ ranked = <<dets[2], dets[1]>>

ScenarioCar == [label |-> "car", conf |-> 90, bbox |-> <<100, 100, 300, 300>>]
Scenario == dets = <<ScenarioCar>> /\ w = 640 /\ h = 480 /\ stage = "done"

\* C7 as stated: the car scene yields a ranked list of length 1, the
\* selection [car] and a sentence with position centre, distance close and
\* the danger flag.
C7_ScenarioCentre ==
    Scenario =>
        /\ Len(ranked) = 1 /\ picked = <<ScenarioCar>>
        /\ phrase = <<"Pered vami", "mashina", "po centru", "blizko", "Eto", "opasno">>

\* C7 amended: the same, with position left (the bbox centre x is 200 and
\* 200/640 = 0.3125 < 0.35).
C7_ScenarioLeft ==
    Scenario =>
        /\ Len(ranked) = 1 /\ picked = <<ScenarioCar>>
        /\ phrase = <<"Pered vami", "mashina", "sleva", "blizko", "Eto", "opasno">>

C7_Witness == Scenario /\ Len(phrase) = 6 /\ phrase[3] = "sleva" /\ phrase[4] = "blizko"

SomeDanger(s) == \E i \in 1..Len(s) : IsDanger(s[i])

\* C10: when some detection is dangerous, the selection holds a dangerous
\* detection and the sentence says "dangerous" of a described object; the
\* selection of a non-empty list has 1 or 2 elements.
C10_HazardAlwaysMentioned ==
    stage = "done" =>
        /\ dets # <<>> => Len(picked) \in {1, 2}
        /\ SomeDanger(dets) =>
            /\ SomeDanger(picked)
            /\ \E k \in {6, 12} : k <= Len(phrase) /\ phrase[k] = "opasno"

\* The only dangerous detection has confidence 0 and is ranked last, behind
\* two confident non-danger detections; it is the secondary.
C10_Witness ==
    /\ stage = "done" /\ Len(ranked) = 3
    /\ ~IsDanger(ranked[1]) /\ ~IsDanger(ranked[2]) /\ ranked[2].conf = 90
    /\ IsDanger(ranked[3]) /\ ranked[3].conf = 0
    /\ picked = <<ranked[1], ranked[3]>> /\ phrase[12] = "opasno"

(***************************************************************************)
(* Property of distance_word (specification DistSpec).                     *)
(***************************************************************************)
\* C8: every ratio r falls in exactly one bucket: r > 0.22 very close,
\* 0.10 < r <= 0.22 close, 0.04 < r <= 0.10 medium, r <= 0.04 far; so 0.22,
\* 0.10 and 0.04 themselves are close, medium and far.
C8_DistanceBuckets ==
    dist_out # "none" =>
        LET n == 100 * area_ratio[1]
            d == area_ratio[2]
        IN  /\ dist_out \in {"ochen blizko", "blizko", "na srednem rasstoyanii", "daleko"}
            /\ (dist_out = "ochen blizko") <=> (n > 22 * d)
            /\ (dist_out = "blizko") <=> (n > 10 * d /\ n <= 22 * d)
            /\ (dist_out = "na srednem rasstoyanii") <=> (n > 4 * d /\ n <= 10 * d)
            /\ (dist_out = "daleko") <=> (n <= 4 * d)

C8_Witness ==
    \/ area_ratio = <<11, 50>> /\ dist_out = "blizko"
    \/ area_ratio = <<1, 10>> /\ dist_out = "na srednem rasstoyanii"
    \/ area_ratio = <<1, 25>> /\ dist_out = "daleko"

(***************************************************************************)
(* The speech gate and the two handlers, one request at a time             *)
(* (specification GateSpec).                                               *)
(***************************************************************************)
\* A plausible slip: the cooldown test uses <=.
should_speak_le(L, ph, now, cooldown_sec) ==
    IF ph = L.phrase /\ (now - L.time) <= cooldown_sec
    THEN [ret |-> FALSE, LAST |-> L]
    ELSE [ret |-> TRUE, LAST |-> [phrase |-> ph, time |-> now]]

\* A plausible slip: a suppressed call refreshes the time stamp.
should_speak_touch(L, ph, now, cooldown_sec) ==
    IF ph = L.phrase /\ (now - L.time) < cooldown_sec
    THEN [ret |-> FALSE, LAST |-> [L EXCEPT !.time = now]]
    ELSE [ret |-> TRUE, LAST |-> [phrase |-> ph, time |-> now]]

\* should_speak run without interruption: its return value and the LAST it
\* leaves.  now is time.time() at line 73.
should_speak(L, ph, now, cooldown_sec) ==
    IF ph = L.phrase /\ (now - L.time) < cooldown_sec
    THEN [ret |-> FALSE, LAST |-> L]
    ELSE [ret |-> TRUE, LAST |-> [phrase |-> ph, time |-> now]]

\* The scenes the uploaded images show, as the detector reports them.
Scenes ==
    {<<>>,
     <<[label |-> "car", conf |-> 90, bbox |-> <<2, 1, 6, 5>>]>>,
     <<[label |-> "person", conf |-> 90, bbox |-> <<2, 1, 6, 5>>],
       [label |-> "bus", conf |-> 45, bbox |-> <<0, 2, 2, 4>>]>>}

\* payload of detect_from_image_bytes for an image showing scene sc.
detect_from_image_bytes(sc) ==
    LET fw == SmallFrame[1]
        fh == SmallFrame[2]
        pk == pick_main_and_danger(rank_objects(sc, fw, fh))
    IN  [phrase |-> make_phrase(pk, fw, fh), detected_count |-> Len(sc), picked |-> pk]

\* The payloads of the scenes, computed once.
Payloads == [sc \in Scenes |-> detect_from_image_bytes(sc)]

\* request.files / request.form: no image part, an empty image, or an image.
Requests ==
    {[image |-> "missing", scene |-> <<>>], [image |-> "empty", scene |-> <<>>]}
    \cup {[image |-> "ok", scene |-> sc] : sc \in Scenes}

\* Time is in whole seconds.  LAST["time"] starts at 0.0 and the process
\* starts more than one cooldown after that instant, so the clock starts at
\* COOLDOWN; it never runs backwards.
GateInit ==
    /\ LAST = [phrase |-> <<>>, time |-> 0]
    /\ clock = COOLDOWN
    /\ spoken = NoSpoken /\ resp = NoResp /\ accepted = NoAccepted
    /\ PipeIdle /\ ThrIdle /\ DistIdle

Tick ==
    /\ clock < MaxClock
    /\ clock' = clock + 1
    /\ UNCHANGED <<LAST, spoken, resp, accepted, pipeVars, thrVars, distVars>>

\* The 400 answers of lines 360-361 and 365-366 (and 382-383, 387-388).
BadRequest(route) ==
    /\ resp' = [NoResp EXCEPT !.seq = 1 - resp.seq, !.route = route, !.status = 400,
                              !.at = clock]
    /\ UNCHANGED <<LAST, spoken, accepted>>

\* What a served request leaves in resp; same, gap and nsupp describe the
\* latest accepted should_speak call as it stood when the request came.
Served(route, ph, voice, audio) ==
    [seq |-> 1 - resp.seq, route |-> route, status |-> 200, phrase |-> ph,
     voice |-> voice, audio |-> audio, at |-> clock,
     same |-> accepted.any /\ ph = accepted.phrase,
     gap |-> clock - accepted.at, nsupp |-> accepted.nsupp]

predict_frame ==
    /\ \E req \in Requests, voice \in BOOLEAN :
        IF req.image # "ok" THEN BadRequest("frame")
        ELSE LET payload == Payloads[req.scene]
                 g == should_speak(LAST, payload.phrase, clock, COOLDOWN)
                 speak == voice /\ g.ret
             IN  /\ LAST' = IF voice THEN g.LAST ELSE LAST
                 /\ spoken' = IF speak THEN [text |-> payload.phrase, at |-> clock, any |-> TRUE]
                              ELSE spoken
                 /\ accepted' =
                        IF speak
                        THEN [phrase |-> payload.phrase, at |-> clock, nsupp |-> 0, any |-> TRUE]
                        ELSE IF voice /\ accepted.nsupp < MaxSupp
                        THEN [accepted EXCEPT !.nsupp = @ + 1]
                        ELSE accepted
                 /\ resp' = Served("frame", payload.phrase, voice, speak)
    /\ UNCHANGED <<clock, pipeVars, thrVars, distVars>>

predict_photo ==
    /\ \E req \in Requests, voice \in BOOLEAN :
        IF req.image # "ok" THEN BadRequest("photo")
        ELSE LET payload == Payloads[req.scene]
             IN  /\ spoken' = IF voice THEN [text |-> payload.phrase, at |-> clock, any |-> TRUE]
                              ELSE spoken
                 /\ resp' = Served("photo", payload.phrase, voice, voice)
                 /\ UNCHANGED <<LAST, accepted>>
    /\ UNCHANGED <<clock, pipeVars, thrVars, distVars>>

GateNext == Tick \/ predict_frame \/ predict_photo

GateSpec == GateInit /\ [][GateNext]_vars

\* A step that served a /predict/frame request with voice on, which is a
\* step that called should_speak(phrase) at time clock.
GateCall ==
    /\ resp'.seq # resp.seq
    /\ resp'.route = "frame" /\ resp'.status = 200 /\ resp'.voice

\* C1: should_speak returns false exactly when the phrase equals lastPhrase
\* and now - lastSpokenAt < cooldown; in every other case it returns true
\* and sets lastPhrase = phrase, lastSpokenAt = now.
C1_GateContract ==
    [][GateCall =>
         /\ (~resp'.audio) <=> (resp'.phrase = LAST.phrase /\ clock - LAST.time < COOLDOWN)
         /\ resp'.audio => LAST' = [phrase |-> resp'.phrase, time |-> clock]]_vars

\* The same phrase is accepted again exactly one cooldown after it was
\* accepted.
C1_Witness ==
    /\ resp.route = "frame" /\ resp.voice /\ resp.audio
    /\ resp.same /\ resp.gap = COOLDOWN
    /\ LAST = [phrase |-> resp.phrase, time |-> resp.at]

\* C3 as stated: right after any request that hands a phrase to speak_ru,
\* LAST.phrase is that phrase and LAST.time is the time of that acceptance.
C3_GateUpdatedOnEverySpeech ==
    (resp.status = 200 /\ resp.audio) =>
        (LAST.phrase = resp.phrase /\ LAST.time = resp.at)

\* C9: a should_speak call that returns false leaves LAST unchanged, so the
\* same phrase is accepted again as soon as now minus the time of the latest
\* accepted call reaches the cooldown, however many calls were suppressed in
\* between; a phrase other than the latest accepted one is accepted at once.
C9_SuppressedCallsKeepWindow ==
    [][GateCall =>
         /\ (~resp'.audio) => LAST' = LAST
         /\ (resp'.same /\ resp'.gap >= COOLDOWN) => resp'.audio
         /\ (resp'.same /\ resp'.gap < COOLDOWN) => ~resp'.audio
         /\ (~resp'.same) => resp'.audio]_vars

\* The phrase is accepted exactly one cooldown after its latest acceptance,
\* with suppressed calls in between.
C9_Witness ==
    /\ resp.route = "frame" /\ resp.voice /\ resp.audio
    /\ resp.same /\ resp.gap = COOLDOWN /\ resp.nsupp = MaxSupp

(***************************************************************************)
(* Concurrent /predict/frame requests with voice on, one per thread        *)
(* (specification ConcSpec).  should_speak takes no lock: its reads and    *)
(* writes of LAST are separate steps that other threads interleave with.   *)
(***************************************************************************)
Threads == 1..NThreads

ConcInit ==
    /\ LAST = [phrase |-> <<>>, time |-> 0]
    /\ clock = COOLDOWN
    /\ spoken = NoSpoken /\ resp = NoResp /\ accepted = NoAccepted
    /\ pc = [t \in Threads |-> "idle"]
    /\ tphrase = [t \in Threads |-> <<>>]
    /\ tnow = [t \in Threads |-> 0]
    /\ tret = [t \in Threads |-> "none"]
    /\ PipeIdle /\ DistIdle

\* predict_frame up to the call of should_speak (lines 359-372).
Arrive(t) ==
    /\ pc[t] = "idle"
    /\ \E sc \in Scenes : tphrase' = [tphrase EXCEPT ![t] = Payloads[sc].phrase]
    /\ pc' = [pc EXCEPT ![t] = "now"]
    /\ UNCHANGED <<tnow, tret, gateVars, pipeVars, distVars>>

\* now = time.time()
ReadNow(t) ==
    /\ pc[t] = "now"
    /\ tnow' = [tnow EXCEPT ![t] = clock]
    /\ pc' = [pc EXCEPT ![t] = "cmp_phrase"]
    /\ UNCHANGED <<tphrase, tret, gateVars, pipeVars, distVars>>

\* phrase == LAST["phrase"] (the left operand of the and)
CmpPhrase(t) ==
    /\ pc[t] = "cmp_phrase"
    /\ pc' = [pc EXCEPT ![t] = IF tphrase[t] = LAST.phrase THEN "cmp_time" ELSE "set_phrase"]
    /\ UNCHANGED <<tphrase, tnow, tret, gateVars, pipeVars, distVars>>

\* (now - LAST["time"]) < cooldown_sec, and return False
CmpTime(t) ==
    /\ pc[t] = "cmp_time"
    /\ IF tnow[t] - LAST.time < COOLDOWN
       THEN /\ tret' = [tret EXCEPT ![t] = "false"]
            /\ pc' = [pc EXCEPT ![t] = "done"]
       ELSE /\ tret' = tret
            /\ pc' = [pc EXCEPT ![t] = "set_phrase"]
    /\ UNCHANGED <<tphrase, tnow, gateVars, pipeVars, distVars>>

\* LAST["phrase"] = phrase
SetPhrase(t) ==
    /\ pc[t] = "set_phrase"
    /\ LAST' = [LAST EXCEPT !.phrase = tphrase[t]]
    /\ pc' = [pc EXCEPT ![t] = "set_time"]
    /\ UNCHANGED <<tphrase, tnow, tret, clock, spoken, resp, accepted, pipeVars, distVars>>

\* LAST["time"] = now, and return True
SetTime(t) ==
    /\ pc[t] = "set_time"
    /\ LAST' = [LAST EXCEPT !.time = tnow[t]]
    /\ tret' = [tret EXCEPT ![t] = "true"]
    /\ pc' = [pc EXCEPT ![t] = "speak"]
    /\ UNCHANGED <<tphrase, tnow, clock, spoken, resp, accepted, pipeVars, distVars>>

\* audio_url = speak_ru(payload["phrase"])
Speak(t) ==
    /\ pc[t] = "speak"
    /\ spoken' = [text |-> tphrase[t], at |-> clock, any |-> TRUE]
    /\ pc' = [pc EXCEPT ![t] = "done"]
    /\ UNCHANGED <<tphrase, tnow, tret, LAST, clock, resp, accepted, pipeVars, distVars>>

ConcNext ==
    \/ Tick
    \/ \E t \in Threads :
        \/ Arrive(t) \/ ReadNow(t) \/ CmpPhrase(t) \/ CmpTime(t)
        \/ SetPhrase(t) \/ SetTime(t) \/ Speak(t)

ConcSpec == ConcInit /\ [][ConcNext]_vars

\* C2: of the concurrent /predict/frame requests that carry the same phrase
\* and reach the gate within one cooldown window, at most one gets True from
\* should_speak, under every interleaving.
C2_NoDoubleTrigger ==
    \A t1, t2 \in Threads :
        ( /\ t1 # t2
          /\ \A t \in Threads : pc[t] # "idle" => tphrase[t] = tphrase[t1]
          /\ tret[t1] = "true" /\ tret[t2] = "true"
          /\ tnow[t1] <= tnow[t2] )
        => tnow[t2] - tnow[t1] >= COOLDOWN

====
